---- MODULE Spec2Model ----
(* A model of src/Str.py: a Streamlit page script.  Every (re)display of    *)
(* the page executes the script from its first line to its last in a fresh  *)
(* namespace; load_data is memoised by st.cache_data across displays; an    *)
(* exception that no statement catches ends the display.                    *)
EXTENDS Integers, Sequences, FiniteSets, TLC

VARIABLES file, cache, loads, displays, pc, df, agg_df, diagnosed_df,
          shown, error, firstShown

vars == <<file, cache, loads, displays, pc, df, agg_df, diagnosed_df,
          shown, error, firstShown>>

-----------------------------------------------------------------------------
(* Bounds of the model *)

MaxDisplays == 2
MinAge == 47
MaxAge == 101
MaxMissing == 1
MaxRows == 3
NumCountries == 11
MaxAbsent == 2
MaxInvoke == 3

-----------------------------------------------------------------------------
(* Values and columns *)

\* a missing numeric cell (pandas NaN); every number of the data is >= 0
NaN == 0 - 1
\* a missing categorical cell (pandas NaN/None in an object column)
None == "None"

DiagCol == "Alzheimers Diagnosis"
BinaryCol == "Diagnosis_Binary"
AgeGroupCol == "Age Group"

num_features == <<"Age", "BMI", "Education Level", "Cognitive Test Score", BinaryCol>>
lifestyle_cols == <<"Smoking Status", "Alcohol Consumption", "Physical Activity Level",
                    "Sleep Quality", "Dietary Habits">>

\* the columns the script reads from the CSV
SourceCols == {"Age", "Gender", "Country", "BMI", "Education Level",
               "Cognitive Test Score", DiagCol}
                 \cup {lifestyle_cols[i] : i \in 1..Len(lifestyle_cols)}

bins == <<49, 59, 69, 79, 89, 99>>
labels == <<"50-59", "60-69", "70-79", "80-89", "90-99">>
TopN == 10

Range(s) == {s[i] : i \in 1..Len(s)}

\* df[col] raises KeyError when the table has no such column
HasCols(d, cs) == cs \subseteq d.cols

-----------------------------------------------------------------------------
(* load_data *)

\* mutant: the flag computed as (label == "Yes").astype(int)
DiagnosisMapZero(v) == IF v = "Yes" THEN 1 ELSE 0

\* Series.map({"Yes": 1, "No": 0}): a value that is no key of the dict maps to NaN
DiagnosisMap(v) ==
    IF v = "Yes" THEN 1 ELSE IF v = "No" THEN 0 ELSE NaN

\* mutant: pd.cut(..., right=False), intervals [bins[i], bins[i+1])
CutLeftClosed(x) ==
    IF x = NaN THEN None
    ELSE LET hit == {i \in 1..(Len(bins) - 1) : bins[i] <= x /\ x < bins[i + 1]}
         IN IF hit = {} THEN None ELSE labels[CHOOSE i \in hit : TRUE]

\* pd.cut(x, bins, labels): right-closed intervals (bins[i], bins[i+1]];
\* a value in no interval, or a missing one, gets no label
Cut(x) ==
    IF x = NaN THEN None
    ELSE LET hit == {i \in 1..(Len(bins) - 1) : bins[i] < x /\ x <= bins[i + 1]}
         IN IF hit = {} THEN None ELSE labels[CHOOSE i \in hit : TRUE]

\* whether the body of load_data returns (rather than raises) on file f
LoadOk(f) == f.exists /\ HasCols(f, {DiagCol, "Age"})

\* the table the body of load_data returns on file f
LoadBody(f) ==
    [cols |-> f.cols \cup {BinaryCol, AgeGroupCol},
     rows |-> [i \in 1..Len(f.rows) |->
                  [c \in f.cols \cup {BinaryCol, AgeGroupCol} |->
                      IF c = BinaryCol THEN DiagnosisMap(f.rows[i][DiagCol])
                      ELSE IF c = AgeGroupCol THEN Cut(f.rows[i]["Age"])
                      ELSE f.rows[i][c]]]]

\* mutant: the body catches the exception and returns an empty table
load_data_swallow(f) ==
    IF LoadOk(f) THEN <<LoadBody(f)>>
    ELSE <<[cols |-> {"Age", DiagCol, BinaryCol, AgeGroupCol}, rows |-> <<>>]>>

\* the body of load_data on file f: <<table>>, or <<>> when a statement raises
\* (read_csv on a missing file, df[...] on an absent column)
load_data(f) == IF LoadOk(f) THEN <<LoadBody(f)>> ELSE <<>>

-----------------------------------------------------------------------------
(* pandas helpers used by the chart sections *)

RECURSIVE SumSeq(_)
SumSeq(s) == IF s = <<>> THEN 0 ELSE s[1] + SumSeq(Tail(s))

\* df[df[col] == v]: the rows whose cell equals v, in order, same columns
RECURSIVE FilterRows(_, _, _)
FilterRows(rows, col, v) ==
    IF rows = <<>> THEN <<>>
    ELSE IF rows[1][col] = v
         THEN <<rows[1]>> \o FilterRows(Tail(rows), col, v)
         ELSE FilterRows(Tail(rows), col, v)

subset(d, col, v) == [cols |-> d.cols, rows |-> FilterRows(d.rows, col, v)]

\* the hash-table pass of value_counts: one entry per distinct non-missing value,
\* in order of first appearance, with the number of rows holding it
RECURSIVE Tally(_, _, _)
Tally(rows, col, acc) ==
    IF rows = <<>> THEN acc
    ELSE LET v == rows[1][col]
             at == {j \in 1..Len(acc) : acc[j].value = v}
         IN IF v = None THEN Tally(Tail(rows), col, acc)
            ELSE IF at = {}
                 THEN Tally(Tail(rows), col, Append(acc, [value |-> v, count |-> 1]))
                 ELSE Tally(Tail(rows), col,
                            [j \in 1..Len(acc) |->
                                IF j \in at THEN [value |-> v, count |-> acc[j].count + 1]
                                ELSE acc[j]])

\* mutant: value_counts(ascending=True)
OutranksAscending(x, y) == x.count < y.count

\* whether entry x sorts before entry y in value_counts' result
Outranks(x, y) == x.count > y.count

\* insert x into a sequence sorted by descending count, after its equals (stable)
InsertDesc(sorted, x) ==
    LET before == {j \in 1..Len(sorted) : ~Outranks(x, sorted[j])}
        k == Cardinality(before)
    IN SubSeq(sorted, 1, k) \o <<x>> \o SubSeq(sorted, k + 1, Len(sorted))

RECURSIVE SortDesc(_, _)
SortDesc(s, acc) ==
    IF s = <<>> THEN acc ELSE SortDesc(Tail(s), InsertDesc(acc, s[1]))

\* Series.value_counts(): counts of the non-missing values, most frequent first
ValueCounts(d, col) == SortDesc(Tally(d.rows, col, <<>>), <<>>)

\* .head(n)
HeadN(s, n) == SubSeq(s, 1, IF Len(s) < n THEN Len(s) ELSE n)

\* a proportion num/den; 0/0 stands for NaN
Frac(n, m) == [num |-> n, den |-> m]
NaNFrac == Frac(0, 0)

\* mutant: the counts over the number of rows, the rows without a value included
ValueSharesOfRows(d, col) ==
    LET vc == ValueCounts(d, col)
    IN [j \in 1..Len(vc) |-> Frac(vc[j].count, Len(d.rows))]

\* Series.value_counts(normalize=True): each count over the sum of the counts
ValueShares(d, col) ==
    LET vc == ValueCounts(d, col)
        total == SumSeq([j \in 1..Len(vc) |-> vc[j].count])
    IN [j \in 1..Len(vc) |-> Frac(vc[j].count, total)]

\* Series.max(): NaN on an empty series (the shares of one series share a denominator)
MaxShare(s) ==
    IF s = <<>> THEN NaNFrac
    ELSE s[CHOOSE j \in 1..Len(s) : \A k \in 1..Len(s) : s[j].num >= s[k].num]

\* px.histogram(df, x=x, color=color): the number of rows per (x, color) pair
Histogram(d, x, color) ==
    LET keys == {<<d.rows[i][x], d.rows[i][color]>> : i \in 1..Len(d.rows)}
        real == {k \in keys : k[1] # None /\ k[2] # None}
    IN [k \in real |->
           Cardinality({i \in 1..Len(d.rows) :
                           d.rows[i][x] = k[1] /\ d.rows[i][color] = k[2]})]

-----------------------------------------------------------------------------
(* The data each chart section computes *)

\* fig1: px.histogram(df, x=diagnosis, color=diagnosis)
Fig1Data(d) == Histogram(d, DiagCol, DiagCol)

\* fig2: px.histogram(df, x="Age Group", color=diagnosis, barmode="group")
Fig2Data(d) == Histogram(d, AgeGroupCol, DiagCol)

\* fig_corr: df[num_features].corr(); the entry of features x and y is given by the
\* sums Pearson's r is made of, over the rows where both cells are present:
\* <<n*Sxy - Sx*Sy, n*Sxx - Sx*Sx, n*Syy - Sy*Sy>>
CorrEntry(d, x, y) ==
    LET both(i) == d.rows[i][x] # NaN /\ d.rows[i][y] # NaN
        col(i, c) == IF both(i) THEN d.rows[i][c] ELSE 0
        n == Cardinality({i \in 1..Len(d.rows) : both(i)})
        Sx == SumSeq([i \in 1..Len(d.rows) |-> col(i, x)])
        Sy == SumSeq([i \in 1..Len(d.rows) |-> col(i, y)])
        Sxy == SumSeq([i \in 1..Len(d.rows) |-> col(i, x) * col(i, y)])
        Sxx == SumSeq([i \in 1..Len(d.rows) |-> col(i, x) * col(i, x)])
        Syy == SumSeq([i \in 1..Len(d.rows) |-> col(i, y) * col(i, y)])
    IN <<n * Sxy - Sx * Sy, n * Sxx - Sx * Sx, n * Syy - Sy * Sy>>

corr_matrix(d) ==
    [x \in Range(num_features) |-> [y \in Range(num_features) |-> CorrEntry(d, x, y)]]

\* df.groupby(["Age", diagnosis])["Cognitive Test Score"].mean().reset_index():
\* one row per (age, label) pair present (rows with a missing key are dropped),
\* the mean given as <<sum, count>> of the scores present
AggDf(d) ==
    LET keys == {<<d.rows[i]["Age"], d.rows[i][DiagCol]>> : i \in 1..Len(d.rows)}
        real == {k \in keys : k[1] # NaN /\ k[2] # None}
        in(i, k) == /\ d.rows[i]["Age"] = k[1]
                    /\ d.rows[i][DiagCol] = k[2]
                    /\ d.rows[i]["Cognitive Test Score"] # NaN
    IN {[Age |-> k[1], Diagnosis |-> k[2],
         Mean |-> <<SumSeq([i \in 1..Len(d.rows) |->
                              IF in(i, k) THEN d.rows[i]["Cognitive Test Score"] ELSE 0]),
                    Cardinality({i \in 1..Len(d.rows) : in(i, k)})>>] : k \in real}

\* fig3: px.line(agg_df, x="Age", y=score, color=diagnosis, markers=True):
\* one line per label through its (age, mean) points
Fig3Data(agg) ==
    [g \in {r.Diagnosis : r \in agg} |-> {<<r.Age, r.Mean>> : r \in {q \in agg : q.Diagnosis = g}}]

\* fig4: px.scatter(agg_df, ..., trendline="ols", symbol=diagnosis): the same points
\* per label, each label with its own marker symbol and a fitted line that the
\* charting library derives from those points
Fig4Data(agg) ==
    [g \in {r.Diagnosis : r \in agg} |->
        [symbol |-> g, points |-> {<<r.Age, r.Mean>> : r \in {q \in agg : q.Diagnosis = g}}]]

\* fig5: px.histogram(df, x="Gender", color=diagnosis, barmode="group")
Fig5Data(d) == Histogram(d, "Gender", DiagCol)

\* radar_data: for each group, the share of the most common value of every
\* lifestyle indicator among the rows of the group
radar_data(d) ==
    [group \in {"Yes", "No"} |->
        [k \in 1..Len(lifestyle_cols) |->
            MaxShare(ValueShares(subset(d, DiagCol, group), lifestyle_cols[k]))]]

\* diagnosed_df = df[df[diagnosis] == "Yes"]
DiagnosedDf(d) == subset(d, DiagCol, "Yes")

\* mutant: .head(10) left out
top_countries_all(dd) == ValueCounts(dd, "Country")

\* top_countries = diagnosed_df["Country"].value_counts().head(10).reset_index()
top_countries(dd) == HeadN(ValueCounts(dd, "Country"), TopN)

\* country_counts = diagnosed_df["Country"].value_counts().reset_index()
country_counts(dd) == ValueCounts(dd, "Country")

-----------------------------------------------------------------------------
(* The chart sections.  A section's result is <<artifact>>, or <<>> when one *)
(* of its statements raises (KeyError on an absent column, NameError on a    *)
(* name no earlier statement of this run has bound).                         *)

Units == <<"fig1", "fig2", "fig_corr", "agg_df", "fig3", "fig4", "fig5", "fig6",
           "fig7", "fig8">>
Charts == Range(Units) \ {"agg_df"}

Fig1Block(d) == IF HasCols(d, {DiagCol}) THEN <<Fig1Data(d)>> ELSE <<>>

Fig2Block(d) == IF HasCols(d, {AgeGroupCol, DiagCol}) THEN <<Fig2Data(d)>> ELSE <<>>

FigCorrBlock(d) == IF HasCols(d, Range(num_features)) THEN <<corr_matrix(d)>> ELSE <<>>

\* line 52, a statement of the section, outside the col4 and col5 blocks
AggBlock(d) ==
    IF HasCols(d, {"Age", DiagCol, "Cognitive Test Score"}) THEN <<AggDf(d)>> ELSE <<>>

Fig3Block(agg) == IF agg = <<>> THEN <<>> ELSE <<Fig3Data(agg[1])>>

Fig4Block(agg) == IF agg = <<>> THEN <<>> ELSE <<Fig4Data(agg[1])>>

Fig5Block(d) == IF HasCols(d, {"Gender", DiagCol}) THEN <<Fig5Data(d)>> ELSE <<>>

Fig6Block(d) ==
    IF HasCols(d, {DiagCol} \cup Range(lifestyle_cols)) THEN <<radar_data(d)>> ELSE <<>>

\* line 92 binds diagnosed_df before line 93 reads the Country column
Fig7Diagnosed(d, dd) == IF HasCols(d, {DiagCol}) THEN <<DiagnosedDf(d)>> ELSE dd

Fig7Block(d) ==
    IF HasCols(d, {DiagCol, "Country"}) THEN <<top_countries(DiagnosedDf(d))>> ELSE <<>>

\* line 101 reads diagnosed_df, which only line 92 (in the col8 block) binds
Fig8Block(dd) ==
    IF dd = <<>> THEN <<>>
    ELSE IF HasCols(dd[1], {"Country"}) THEN <<country_counts(dd[1])>> ELSE <<>>

\* what unit c computes from the table and the names bound so far
Block(c, d, agg, dd) ==
    CASE c = "fig1" -> Fig1Block(d)
      [] c = "fig2" -> Fig2Block(d)
      [] c = "fig_corr" -> FigCorrBlock(d)
      [] c = "agg_df" -> AggBlock(d)
      [] c = "fig3" -> Fig3Block(agg)
      [] c = "fig4" -> Fig4Block(agg)
      [] c = "fig5" -> Fig5Block(d)
      [] c = "fig6" -> Fig6Block(d)
      [] c = "fig7" -> Fig7Block(d)
      [] c = "fig8" -> Fig8Block(dd)

\* mutant: line 92 written as df = df[...], rebinding df to the diagnosed rows
DfAfterRebind(c, d) == IF c = "fig7" /\ HasCols(d, {DiagCol}) THEN DiagnosedDf(d) ELSE d

\* the table named df after unit c: no section assigns df or writes a cell of it
\* (boolean indexing, groupby, value_counts and px.* build new objects)
DfAfter(c, d) == d

\* mutant: the col4 block narrows agg_df to the diagnosed rows in place
AggAfterNarrowed(c, d, agg) ==
    IF c = "agg_df" /\ Len(AggBlock(d)) = 1 THEN AggBlock(d)
    ELSE IF c = "fig3" /\ agg # <<>> THEN <<{r \in agg[1] : r.Diagnosis = "Yes"}>>
    ELSE agg

\* agg_df and diagnosed_df after unit c
AggAfter(c, d, agg) == IF c = "agg_df" /\ Len(AggBlock(d)) = 1 THEN AggBlock(d) ELSE agg
DiagnosedAfter(c, d, dd) == IF c = "fig7" THEN Fig7Diagnosed(d, dd) ELSE dd

\* the statement that follows unit c in the script
After(c) ==
    LET k == CHOOSE i \in 1..Len(Units) : Units[i] = c
    IN IF k = Len(Units) THEN "done" ELSE Units[k + 1]

-----------------------------------------------------------------------------
(* st.cache_data: the memo of load_data, which takes no argument *)

\* mutant: the decorator does not take effect
CacheHitNever(c) == FALSE

\* a stored result is returned without running the body
CacheHit(c) == c # <<>>

-----------------------------------------------------------------------------
(* One display of the page: the script from line 8 to line 112 *)

Finished(p) == p \in {"done", "aborted"}

\* lines 8-27: a display starts in a fresh namespace and calls load_data()
Start ==
    /\ pc \in {"idle", "done", "aborted"}
    /\ displays < MaxDisplays
    /\ displays' = displays + 1
    /\ shown' = <<>>
    /\ agg_df' = <<>>
    /\ diagnosed_df' = <<>>
    /\ IF CacheHit(cache)
       THEN /\ df' = cache
            /\ pc' = Units[1]
            /\ error' = <<>>
            /\ UNCHANGED <<cache, loads>>
       ELSE /\ loads' = loads + 1
            /\ IF Len(load_data(file)) = 1
               THEN /\ cache' = load_data(file)
                    /\ df' = load_data(file)
                    /\ pc' = Units[1]
                    /\ error' = <<>>
               ELSE /\ cache' = cache
                    /\ df' = <<>>
                    /\ pc' = "aborted"
                    /\ error' = <<"load_data">>
    /\ UNCHANGED <<file, firstShown>>

\* unit c of the script: its artifact goes to st.plotly_chart / st.pyplot; an
\* exception is shown on the page and ends the display
Step(c) ==
    /\ pc = c
    /\ LET r == Block(c, df[1], agg_df, diagnosed_df)
       IN /\ IF Len(r) = 0
             THEN /\ pc' = "aborted"
                  /\ error' = <<c>>
                  /\ shown' = shown
             ELSE /\ pc' = After(c)
                  /\ error' = error
                  /\ shown' = IF c \in Charts
                              THEN Append(shown, [chart |-> c, data |-> r[1]])
                              ELSE shown
          /\ df' = <<DfAfter(c, df[1])>>
          /\ agg_df' = AggAfter(c, df[1], agg_df)
          /\ diagnosed_df' = DiagnosedAfter(c, df[1], diagnosed_df)
    /\ firstShown' = IF displays = 1 /\ Finished(pc') THEN shown' ELSE firstShown
    /\ UNCHANGED <<file, cache, loads, displays>>

Fig1 == Step("fig1")
Fig2 == Step("fig2")
FigCorr == Step("fig_corr")
Agg == Step("agg_df")
Fig3 == Step("fig3")
Fig4 == Step("fig4")
Fig5 == Step("fig5")
Fig6 == Step("fig6")
Fig7 == Step("fig7")
Fig8 == Step("fig8")

Next ==
    \/ Start
    \/ Fig1 \/ Fig2 \/ FigCorr
    \/ Agg \/ Fig3 \/ Fig4 \/ Fig5
    \/ Fig6 \/ Fig7 \/ Fig8

-----------------------------------------------------------------------------
(* The CSV files the checks range over *)

\* the cells of a row other than age, label and country
Profiles ==
    { [Gender |-> "Female", BMI |-> 22, Edu |-> 12, Cog |-> 80,
       Life |-> <<"Never", "Never", "High", "Good", "Healthy">>],
      [Gender |-> "Male", BMI |-> 30, Edu |-> 8, Cog |-> 55,
       Life |-> <<"Current", "Regularly", "Low", "Poor", "Unhealthy">>],
      [Gender |-> "Male", BMI |-> NaN, Edu |-> 16, Cog |-> NaN,
       Life |-> <<None, "Never", None, "Good", "Average">>] }

P1 == CHOOSE p \in Profiles : p.BMI = 22
P2 == CHOOSE p \in Profiles : p.BMI = 30

Row(age, diag, country, p) ==
    [c \in SourceCols |->
        CASE c = "Age" -> age
          [] c = DiagCol -> diag
          [] c = "Country" -> country
          [] c = "Gender" -> p.Gender
          [] c = "BMI" -> p.BMI
          [] c = "Education Level" -> p.Edu
          [] c = "Cognitive Test Score" -> p.Cog
          [] OTHER -> p.Life[CHOOSE k \in 1..Len(lifestyle_cols) : lifestyle_cols[k] = c]]

\* a readable CSV with the columns cs and the given rows
File(cs, rows) ==
    [exists |-> TRUE, cols |-> cs,
     rows |-> [i \in 1..Len(rows) |-> [c \in cs |-> rows[i][c]]]]

MissingFile == [exists |-> FALSE, cols |-> {}, rows |-> <<>>]

Country(i) == ToString(i)

\* ages {55, 65, 95, 105} with labels {Yes, No, Yes, Yes}
ScenarioRows ==
    <<Row(55, "Yes", Country(1), P1), Row(65, "No", Country(2), P2),
      Row(95, "Yes", Country(1), P2), Row(105, "Yes", Country(3), P1)>>

DiagLabels == {"Yes", "No", "Maybe", None}

\* one-row tables over every age and label of the bounds
LoaderFiles ==
    {File(SourceCols, <<Row(a, l, Country(1), P1)>>) :
        a \in (MinAge..MaxAge) \cup {NaN}, l \in DiagLabels}

\* the scenario table with up to MaxMissing columns absent
ColumnFiles ==
    {File(SourceCols \ m, ScenarioRows) :
        m \in {x \in SUBSET SourceCols : Cardinality(x) <= MaxMissing}}

\* up to MaxRows rows of either label and any profile
LifestyleRows == {Row(60 + p.Edu, l, Country(1), p) : l \in {"Yes", "No"}, p \in Profiles}

LifestyleFiles ==
    UNION {{File(SourceCols, r) : r \in [1..n -> LifestyleRows]} : n \in 0..MaxRows}

\* one diagnosed row for each country of a set, in order
RECURSIVE CountryRows(_, _)
CountryRows(i, present) ==
    IF i > NumCountries THEN <<>>
    ELSE (IF i \in present THEN <<Row(70, "Yes", Country(i), P1)>> ELSE <<>>)
           \o CountryRows(i + 1, present)

\* the country sets: at most one country present, or at most MaxAbsent absent
CountrySets ==
    {x \in SUBSET (1..NumCountries) :
        \/ Cardinality(x) <= 1
        \/ Cardinality(x) >= NumCountries - MaxAbsent}

\* an undiagnosed row of the first country, the diagnosed rows, a second diagnosed
\* row of country `twice` (0: none), and a diagnosed row without a country
CountryFiles ==
    {File(SourceCols,
          <<Row(80, "No", Country(1), P2)>> \o CountryRows(1, present)
            \o (IF twice = 0 THEN <<>> ELSE <<Row(71, "Yes", Country(twice), P2)>>)
            \o <<Row(72, "Yes", None, P1)>>) :
        present \in CountrySets, twice \in {0, 1, NumCountries}}

-----------------------------------------------------------------------------
(* Specifications *)

InitWith(files) ==
    /\ file \in files
    /\ cache = <<>>
    /\ loads = 0
    /\ displays = 0
    /\ pc = "idle"
    /\ df = <<>>
    /\ agg_df = <<>>
    /\ diagnosed_df = <<>>
    /\ shown = <<>>
    /\ error = <<>>
    /\ firstShown = <<>>

Init == InitWith({MissingFile} \cup ColumnFiles \cup LoaderFiles)
Spec == Init /\ [][Next]_vars

InitCountries == InitWith(CountryFiles)
SpecCountries == InitCountries /\ [][Next]_vars

InitLifestyle == InitWith(LifestyleFiles)
SpecLifestyle == InitLifestyle /\ [][Next]_vars

-----------------------------------------------------------------------------
(* The units of the script invoked one at a time, in any order, on a loaded   *)
(* table: each invocation sees the names the earlier invocations bound, and   *)
(* an invocation that raises is recorded and does not stop the others.        *)

Invoked == {shown[i].chart : i \in 1..Len(shown)} \cup Range(error)
             \cup (IF agg_df = <<>> THEN {} ELSE {"agg_df"})

Invoke(c) ==
    /\ pc = "free"
    /\ c \notin Invoked
    /\ Cardinality(Invoked) < MaxInvoke
    /\ LET r == Block(c, df[1], agg_df, diagnosed_df)
       IN /\ error' = IF Len(r) = 0 THEN Append(error, c) ELSE error
          /\ shown' = IF Len(r) = 1 /\ c \in Charts
                      THEN Append(shown, [chart |-> c, data |-> r[1]])
                      ELSE shown
          /\ df' = <<DfAfter(c, df[1])>>
          /\ agg_df' = AggAfter(c, df[1], agg_df)
          /\ diagnosed_df' = DiagnosedAfter(c, df[1], diagnosed_df)
    /\ UNCHANGED <<file, cache, loads, displays, pc, firstShown>>

NextAnyOrder == \E c \in Range(Units) : Invoke(c)

AnyOrderFiles ==
    {File(SourceCols, ScenarioRows)}
      \cup {File(SourceCols, <<r>>) : r \in LifestyleRows}

InitAnyOrder ==
    /\ file \in AnyOrderFiles
    /\ cache = load_data(file)
    /\ loads = 1
    /\ displays = 1
    /\ pc = "free"
    /\ df = load_data(file)
    /\ agg_df = <<>>
    /\ diagnosed_df = <<>>
    /\ shown = <<>>
    /\ error = <<>>
    /\ firstShown = <<>>

SpecAnyOrder == InitAnyOrder /\ [][NextAnyOrder]_vars

-----------------------------------------------------------------------------
(* Properties *)

ShownCharts == {shown[i].chart : i \in 1..Len(shown)}
Loaded == df # <<>>
TableRows == IF Loaded THEN Range(df[1].rows) ELSE {}

\* C1: when a chart of a display fails, every other chart of that display is
\* still rendered.
C1_FailureIsolated ==
    (Finished(pc) /\ error # <<>> /\ error[1] \in Charts)
        => \A c \in Charts \ {error[1]} : c \in ShownCharts

\* C2: when load_data fails (the file is missing, or the diagnosis or the Age
\* column is absent), the display ends there and no chart artifact reaches the
\* display sink.
C2_LoadFailureFatal ==
    (~file.exists \/ DiagCol \notin file.cols \/ "Age" \notin file.cols)
        => /\ shown = <<>>
           /\ ~Loaded
           /\ displays >= 1 => (pc = "aborted" /\ error = <<"load_data">>)

C2_Witness ==
    /\ file.exists
    /\ "Age" \notin file.cols
    /\ displays >= 1
    /\ pc = "aborted"

\* C3 as stated: in every row of the loaded table Diagnosis_Binary is 1 when
\* the label is "Yes" and 0 for every other label.
C3_BinaryZeroOtherwise ==
    \A r \in TableRows : r[BinaryCol] = (IF r[DiagCol] = "Yes" THEN 1 ELSE 0)

\* C3 amended: in every row of the loaded table Diagnosis_Binary is 1 exactly
\* when the label is "Yes", 0 exactly when it is "No", and missing for any other
\* label (a missing label included).
C3_BinaryMap ==
    \A r \in TableRows :
        /\ r[BinaryCol] = 1 <=> r[DiagCol] = "Yes"
        /\ r[BinaryCol] = 0 <=> r[DiagCol] = "No"
        /\ r[DiagCol] \notin {"Yes", "No"} <=> r[BinaryCol] = NaN

C3_Witness ==
    /\ Loaded
    /\ \E r \in TableRows : r[DiagCol] = "Maybe" /\ r[BinaryCol] = NaN

\* C4: in every row of the loaded table an age in 50..99 has the label of its
\* decade as Age Group, and an age of 49 or less, of 100 or more, or a missing
\* age has no Age Group.
C4_AgeGroup ==
    \A r \in TableRows :
        LET a == r["Age"]
            g == r[AgeGroupCol]
        IN IF a # NaN /\ 50 <= a /\ a <= 99
           THEN g = (CASE a <= 59 -> "50-59"
                       [] a >= 60 /\ a <= 69 -> "60-69"
                       [] a >= 70 /\ a <= 79 -> "70-79"
                       [] a >= 80 /\ a <= 89 -> "80-89"
                       [] a >= 90 -> "90-99")
           ELSE g = None

C4_Witness ==
    /\ Loaded
    /\ \E r \in TableRows : r["Age"] = 59 /\ r[AgeGroupCol] = "50-59"

\* C5 as stated: over any sequence of displays the body of load_data runs at
\* most once.
C5_BodyAtMostOnce == loads <= 1

\* C5 amended: the body of load_data returns at most once: once a display has
\* loaded and stored the table no later display runs the body again, while a
\* load that raises stores nothing, so that every display of such a process
\* runs the body again.
C5_BodyOncePerSuccess ==
    /\ cache # <<>> => loads = 1
    /\ cache = <<>> => loads = displays

C5_Witness ==
    /\ displays = MaxDisplays
    /\ displays >= 2
    /\ cache # <<>>
    /\ loads = 1
    /\ pc = "done"

\* C6: no chart section changes the Record Table: whenever a display holds a
\* table it is the table load_data returned and stored, and a later display
\* hands the display sink the artifacts the first display did.
C6_TableUnchanged ==
    /\ Loaded => (df = cache /\ df = load_data(file))
    /\ displays >= 2 =>
          /\ Len(shown) <= Len(firstShown)
          /\ shown = SubSeq(firstShown, 1, Len(shown))
          /\ Finished(pc) => shown = firstShown

C6_Witness ==
    /\ displays >= 2
    /\ pc = "done"
    /\ ShownCharts = Charts

Idx == IF Loaded THEN 1..Len(df[1].rows) ELSE {}
Cell(i, c) == df[1].rows[i][c]

\* the artifact of chart c in the display sink
Artifact(c) == shown[CHOOSE i \in 1..Len(shown) : shown[i].chart = c].data

\* the diagnosed rows of a country, and the countries that have any
YesRows(c) == {i \in Idx : Cell(i, DiagCol) = "Yes" /\ Cell(i, "Country") = c}
DiagnosedCountries ==
    {Cell(i, "Country") : i \in {j \in Idx : Cell(j, DiagCol) = "Yes"}} \ {None}

Slices(a) == {a[k].value : k \in 1..Len(a)}

\* C7: the pie has min(10, number of countries with a diagnosed row) slices, never
\* more than 10 and one per country, and its values add up to the number of
\* diagnosed rows of the countries shown.
C7_TopTenPie ==
    "fig7" \in ShownCharts =>
        LET pie == Artifact("fig7")
            n == Cardinality(DiagnosedCountries)
        IN /\ Len(pie) <= 10
           /\ Len(pie) = (IF n < 10 THEN n ELSE 10)
           /\ Cardinality(Slices(pie)) = Len(pie)
           /\ SumSeq([k \in 1..Len(pie) |-> pie[k].count])
                = Cardinality({i \in Idx : /\ Cell(i, DiagCol) = "Yes"
                                           /\ Cell(i, "Country") \in Slices(pie)})

C7_Witness ==
    /\ "fig7" \in ShownCharts
    /\ Cardinality(DiagnosedCountries) > 10
    /\ Len(Artifact("fig7")) = 10

\* C10: every slice of the pie holds the number of diagnosed rows of its country,
\* the choropleth table holds one entry per country with a diagnosed row and the
\* same count for every country of the pie, and no country left out of the pie
\* has more diagnosed rows than a country in it.
C10_PieAgreesWithMap ==
    /\ "fig7" \in ShownCharts =>
          LET pie == Artifact("fig7")
          IN /\ \A k \in 1..Len(pie) : pie[k].count = Cardinality(YesRows(pie[k].value))
             /\ Slices(pie) \subseteq DiagnosedCountries
             /\ \A c \in DiagnosedCountries \ Slices(pie) : \A k \in 1..Len(pie) :
                    Cardinality(YesRows(c)) <= pie[k].count
    /\ "fig8" \in ShownCharts =>
          LET pie == Artifact("fig7")
              map == Artifact("fig8")
          IN /\ Slices(map) = DiagnosedCountries
             /\ Len(map) = Cardinality(DiagnosedCountries)
             /\ \A k \in 1..Len(pie) : \E m \in 1..Len(map) : map[m] = pie[k]

C10_Witness ==
    /\ "fig8" \in ShownCharts
    /\ DiagnosedCountries \ Slices(Artifact("fig7")) # {}
    /\ \E k \in 1..Len(Artifact("fig7")) : Artifact("fig7")[k].count = 2

\* the rows of a group that have a value for indicator k, and the largest number
\* of them that share one value
WithValue(g, k) ==
    {i \in Idx : Cell(i, DiagCol) = g /\ Cell(i, lifestyle_cols[k]) # None}
TopCount(g, k) ==
    LET n(v) == Cardinality({i \in WithValue(g, k) : Cell(i, lifestyle_cols[k]) = v})
        vals == {Cell(i, lifestyle_cols[k]) : i \in WithValue(g, k)}
    IN IF vals = {} THEN 0 ELSE n(CHOOSE v \in vals : \A w \in vals : n(v) >= n(w))
OneValue(g, k) == Cardinality({Cell(i, lifestyle_cols[k]) : i \in WithValue(g, k)}) = 1

\* v is a proportion in [0,1] equal to top/n
IsShare(v, top, n) ==
    /\ v.den > 0
    /\ 0 <= v.num /\ v.num <= v.den
    /\ v.num * n = top * v.den

\* C8 as stated: for every table, each radar value is in [0,1] and is the count
\* of the group's most common value of the indicator over the number of rows of
\* the group that have a value for it, and is 1 when there is one distinct value.
C8_RadarShareAlways ==
    "fig6" \in ShownCharts =>
        \A g \in {"Yes", "No"}, k \in 1..Len(lifestyle_cols) :
            LET v == Artifact("fig6")[g][k]
            IN /\ IsShare(v, TopCount(g, k), Cardinality(WithValue(g, k)))
               /\ OneValue(g, k) => v.num = v.den

\* C8 amended: the same for every group and indicator for which the group has a
\* row with a value; where it has none (a group without rows included) the radar
\* value is undefined (NaN).
C8_RadarShare ==
    "fig6" \in ShownCharts =>
        \A g \in {"Yes", "No"}, k \in 1..Len(lifestyle_cols) :
            LET v == Artifact("fig6")[g][k]
            IN IF WithValue(g, k) # {}
               THEN /\ IsShare(v, TopCount(g, k), Cardinality(WithValue(g, k)))
                    /\ OneValue(g, k) => v.num = v.den
               ELSE v = NaNFrac

C8_Witness ==
    /\ "fig6" \in ShownCharts
    /\ {i \in Idx : Cell(i, DiagCol) = "No"} = {}
    /\ Artifact("fig6")["No"][2] = NaNFrac
    /\ Artifact("fig6")["Yes"][1] = Frac(1, 2)
    /\ Artifact("fig6")["Yes"][4] = Frac(2, 3)

\* the artifacts a display of the whole script hands to the sink, in order
RECURSIVE ScriptRun(_, _, _, _, _)
ScriptRun(k, d, agg, dd, out) ==
    IF k > Len(Units) THEN out
    ELSE LET c == Units[k]
             r == Block(c, d, agg, dd)
         IN IF Len(r) = 0 THEN out
            ELSE ScriptRun(k + 1, DfAfter(c, d), AggAfter(c, d, agg),
                           DiagnosedAfter(c, d, dd),
                           IF c \in Charts THEN Append(out, [chart |-> c, data |-> r[1]])
                           ELSE out)

ScriptData(c) ==
    LET out == ScriptRun(1, load_data(file)[1], <<>>, <<>>, <<>>)
    IN out[CHOOSE i \in 1..Len(out) : out[i].chart = c].data

\* C9 as stated: every chart, computed alone or ahead of any other unit, yields
\* the artifact it yields in the script's sequence.
C9_AnyOrderSame ==
    \A c \in Charts \cap Invoked :
        /\ c \in ShownCharts
        /\ Artifact(c) = ScriptData(c)

\* the names of the script, other than df, that chart c reads are bound
NamesBound(c) ==
    CASE c \in {"fig3", "fig4"} -> agg_df # <<>>
      [] c = "fig8" -> diagnosed_df # <<>>
      [] OTHER -> TRUE

\* C9 amended: fig1, fig2, the heatmap, fig5, fig6 and fig7 read only the table;
\* fig3 and fig4 also read agg_df (bound by line 52, ahead of both) and fig8 reads
\* diagnosed_df (bound inside fig7's block).  A chart invoked when the names it
\* reads are bound yields its in-sequence artifact, whatever ran before it; one
\* invoked before they are bound fails.
C9_SameOnceNamesBound ==
    [][\A c \in Charts :
          (c \in Invoked' /\ c \notin Invoked) =>
              IF NamesBound(c)
              THEN /\ \E i \in 1..Len(shown') : shown'[i].chart = c
                   /\ shown'[Len(shown')].data = ScriptData(c)
              ELSE c \in Range(error')]_vars

C9_Witness ==
    /\ pc = "free"
    /\ Len(shown) = 2
    /\ shown[1].chart = "fig7"
    /\ shown[2].chart = "fig8"
    /\ error = <<>>

====
